---- MODULE Spec2Model ----
(***************************************************************************)
(* Model of v42-rel1.py: the generate -> run -> judge -> feedback loop of  *)
(* main(), the history pruner prune_history() and the code extractor       *)
(* extract_code_blocks().                                                  *)
(*                                                                         *)
(* Text is modelled as a sequence of tokens.  A token is either one of the *)
(* fixed phrases the program searches for or writes (the two sentinels,    *)
(* the three step markers, the code fence, ...) or an opaque piece of      *)
(* text.  `x in text` of the source is token membership; string            *)
(* concatenation is sequence concatenation.                                *)
(***************************************************************************)
EXTENDS Integers, Sequences, FiniteSets, TLC

(***************************************************************************)
(* Tokens                                                                  *)
(***************************************************************************)
PASS_STR == "Project output fully satisfies project description"
FAIL_STR == "Project output does not fully satisfy project description"
\* the same two sentences as a model may type them, in other letter cases
PASS_UPPER == "PROJECT OUTPUT FULLY SATISFIES PROJECT DESCRIPTION"
PASS_LOWER == "project output fully satisfies project description"
FAIL_UPPER == "PROJECT OUTPUT DOES NOT FULLY SATISFY PROJECT DESCRIPTION"
FAIL_LOWER == "project output does not fully satisfy project description"

UF_MARK    == "User Feedback:"
GEN_MARK   == "We are in the Code Generation Step."
JUDGE_MARK == "We are in the Code Judgment Step."
\* the triple-backtick fence
FENCE      == "[fence]"
PY         == "python"
WS         == " "
ERROR_PLACEHOLDER == "No response due to an error."
TIMEOUT_MARKER    == "Error: Code timed out."
NO_CODE_RETURNED  == "No code was returned."
NO_CODE_RUN       == "No code was run."

(***************************************************************************)
(* Text helpers                                                            *)
(***************************************************************************)
\* `tok in text`
Contains(text, tok) == \E i \in 1..Len(text) : text[i] = tok

\* str.lower() on one token: only the sentinel sentences carry letter case
\* that the program looks at
LowerTok(t) ==
    IF t \in {PASS_STR, PASS_UPPER, PASS_LOWER} THEN PASS_LOWER
    ELSE IF t \in {FAIL_STR, FAIL_UPPER, FAIL_LOWER} THEN FAIL_LOWER
    ELSE t

\* str.lower()
Lower(text) == [i \in 1..Len(text) |-> LowerTok(text[i])]

RECURSIVE StripLeft(_)
StripLeft(text) ==
    IF text = <<>> THEN <<>>
    ELSE IF Head(text) = WS THEN StripLeft(Tail(text))
    ELSE text

RECURSIVE StripRight(_)
StripRight(text) ==
    IF text = <<>> THEN <<>>
    ELSE IF text[Len(text)] = WS THEN StripRight(SubSeq(text, 1, Len(text) - 1))
    ELSE text

\* str.strip()
Strip(text) == StripRight(StripLeft(text))

\* list.reverse()
ReverseKeepsOrder(s) == s
Reverse(s) == [i \in 1..Len(s) |-> s[Len(s) + 1 - i]]

(***************************************************************************)
(* prune_history                                                           *)
(***************************************************************************)
IsFeedbackMsg(msg) == msg.role = "user" /\ Contains(msg.content, UF_MARK)

IsRoundMsg(msg) ==
    \/ Contains(msg.content, GEN_MARK)
    \/ Contains(msg.content, JUDGE_MARK)

\* One turn of the loop body of prune_history: what happens to `msg` when
\* `cnt` rounds have been counted so far.
ScanStepBudgetFirst(msg, cnt, max) ==
    IF cnt < max
    THEN IF IsFeedbackMsg(msg) \/ msg.role = "assistant"
         THEN [keep |-> TRUE, cnt |-> cnt]
         ELSE IF IsRoundMsg(msg)
              THEN [keep |-> TRUE, cnt |-> cnt + 1]
              ELSE [keep |-> FALSE, cnt |-> cnt]
    ELSE [keep |-> FALSE, cnt |-> cnt]

ScanStep(msg, cnt, max) ==
    IF IsFeedbackMsg(msg)
    THEN [keep |-> TRUE, cnt |-> cnt]
    ELSE IF cnt < max
         THEN IF msg.role = "assistant"
              THEN [keep |-> TRUE, cnt |-> cnt]
              ELSE IF IsRoundMsg(msg)
                   THEN [keep |-> TRUE, cnt |-> cnt + 1]
                   ELSE [keep |-> FALSE, cnt |-> cnt]
         ELSE [keep |-> FALSE, cnt |-> cnt]

\* for msg in reversed(remainder): the messages remainder[i], remainder[i-1],
\* ..., remainder[1] are still to be visited; the result is kept_reversed
RECURSIVE ScanReversed(_, _, _, _, _)
ScanReversed(remainder, i, cnt, kept_reversed, max) ==
    IF i = 0 THEN kept_reversed
    ELSE LET step == ScanStep(remainder[i], cnt, max)
         IN  ScanReversed(remainder, i - 1, step.cnt,
                          IF step.keep THEN Append(kept_reversed, remainder[i])
                                       ELSE kept_reversed,
                          max)

PinnedFirstOnly(conversation_history) == SubSeq(conversation_history, 1, 1)
Pinned(conversation_history) == SubSeq(conversation_history, 1, 2)

Remainder(conversation_history) ==
    SubSeq(conversation_history, 3, Len(conversation_history))

\* the pruning with the pinned messages put after the kept ones
prune_history_pinned_last(conversation_history, max_code_rounds) ==
    IF Len(conversation_history) <= 2 THEN conversation_history
    ELSE LET remainder == Remainder(conversation_history)
             kept_reversed ==
                 ScanReversed(remainder, Len(remainder), 0, <<>>, max_code_rounds)
         IN  Reverse(kept_reversed) \o Pinned(conversation_history)

prune_history(conversation_history, max_code_rounds) ==
    IF Len(conversation_history) <= 2 THEN conversation_history
    ELSE LET remainder == Remainder(conversation_history)
             kept_reversed ==
                 ScanReversed(remainder, Len(remainder), 0, <<>>, max_code_rounds)
         IN  Pinned(conversation_history) \o Reverse(kept_reversed)

(***************************************************************************)
(* extract_code_blocks                                                     *)
(***************************************************************************)
\* index of the first fence at or after position i, 0 when there is none
RECURSIVE FindFence(_, _)
FindFence(text, i) ==
    IF i > Len(text) THEN 0
    ELSE IF text[i] = FENCE THEN i
    ELSE FindFence(text, i + 1)

\* \s* : the first position at or after i that holds no whitespace
RECURSIVE SkipWs(_, _)
SkipWs(text, i) ==
    IF i <= Len(text) /\ text[i] = WS THEN SkipWs(text, i + 1) ELSE i

\* the matches when a closing fence may open the next match as well
RECURSIVE FindAllFromOverlapping(_, _)
FindAllFromOverlapping(text, i) ==
    LET open == FindFence(text, i)
    IN  IF open = 0 THEN <<>>
        ELSE LET afterTag == IF open + 1 <= Len(text) /\ text[open + 1] = PY
                             THEN open + 2 ELSE open + 1
                 start == SkipWs(text, afterTag)
                 close == FindFence(text, start)
             IN  IF close = 0 THEN <<>>
                 ELSE <<StripRight(SubSeq(text, start, close - 1))>>
                      \o FindAllFromOverlapping(text, close)

\* re.findall(r"```(?:python)?\s*(.*?)\s*```", text, re.DOTALL) from position
\* i on: the groups of the non-overlapping matches, left to right
RECURSIVE FindAllFrom(_, _)
FindAllFrom(text, i) ==
    LET open == FindFence(text, i)
    IN  IF open = 0 THEN <<>>
        ELSE LET afterTag == IF open + 1 <= Len(text) /\ text[open + 1] = PY
                             THEN open + 2 ELSE open + 1
                 start == SkipWs(text, afterTag)
                 close == FindFence(text, start)
             IN  IF close = 0 THEN <<>>
                 ELSE <<StripRight(SubSeq(text, start, close - 1))>>
                      \o FindAllFrom(text, close + 1)

extract_first_code_block(response) ==
    LET code_match == FindAllFrom(response, 1)
    IN  IF code_match /= <<>> THEN code_match[1] ELSE <<>>
extract_code_blocks(response) ==
    LET code_match == FindAllFrom(response, 1)
    IN  IF code_match /= <<>> THEN code_match[Len(code_match)] ELSE <<>>

(***************************************************************************)
(* The judge's verdict (main, lines 397-457)                               *)
(***************************************************************************)
ContainsPassCaseSensitive(response_judge) ==
    Contains(response_judge, PASS_STR)
ContainsPass(response_judge) ==
    Contains(Lower(response_judge), LowerTok(PASS_STR))

\* the FAIL test without the two calls of lower()
ContainsFailCaseSensitive(response_judge) ==
    Contains(response_judge, FAIL_STR)

ContainsFail(response_judge) ==
    Contains(Lower(response_judge), LowerTok(FAIL_STR))

\* the classification when a reply without a sentinel counts as a FAIL
VerdictDefaultFail(response_judge) ==
    IF ContainsPass(response_judge) THEN "PASS"
    ELSE "FAIL"

Verdict(response_judge) ==
    IF ContainsPass(response_judge) THEN "PASS"
    ELSE IF ContainsFail(response_judge) THEN "FAIL"
    ELSE "INCOMPLETE"

(***************************************************************************)
(* Messages                                                                *)
(***************************************************************************)
Msg(role, content) == [role |-> role, content |-> content]

system_prompt == <<"You are a helpful AI assistant", PASS_STR, FAIL_STR>>
project_description == "project description"

SystemMsg == Msg("system", system_prompt)
TaskMsg   == Msg("user", <<project_description>>)

user_msg_gen ==
    <<GEN_MARK, project_description, "Please return full valid Python code">>

user_msg_judge(code, output) ==
    <<JUDGE_MARK, project_description, FENCE, PY>> \o code \o <<FENCE>>
    \o output \o <<PASS_STR, FAIL_STR, "Followed by a failure analysis">>

feedback_msg(user_feedback) ==
    <<UF_MARK>> \o user_feedback \o <<"Please revise or improve the code">>

(***************************************************************************)
(* Bounds and the inputs of the environment                                *)
(***************************************************************************)
MAX_CODE_HISTORY == 3
\* iterations of the while loop of main() that are explored
MaxIter == 2
\* the configured MAX_FAIL_WO_FDBK ranges over 1..MaxThreshold
MaxThreshold == 2

\* what the completion backend may answer to a generation request
GenReplies ==
    { <<"Here is the code", FENCE, PY, "c1", FENCE>>,
      <<FENCE, "print", UF_MARK, FENCE>>,
      <<ERROR_PLACEHOLDER>> }

\* what the completion backend may answer to a judgment request
JudgeReplies ==
    { <<PASS_STR>>,
      <<PASS_UPPER>>,
      <<FAIL_STR>>,
      <<FAIL_LOWER, FENCE, "c1", FENCE, "analysis", FENCE, PY, WS, "c2", WS, FENCE>>,
      <<FAIL_STR, FENCE, WS, FENCE>>,
      <<FAIL_STR, "quoting", PASS_STR, FENCE, "c2", FENCE>>,
      <<"neither sentence", FENCE, "c2", FENCE>>,
      <<ERROR_PLACEHOLDER>> }

\* what the operator may type at the feedback prompt
FeedbackInputs == { <<>>, <<WS>>, <<"make it faster">> }

\* run_code(code_string): the normal return, the timeout and the exception
run_code(code_string) ==
    { <<"stdout", "stderr", "[Code execution took d seconds.]">>,
      <<TIMEOUT_MARKER>>,
      <<"Error: exception text">> }

(***************************************************************************)
(* The files the program keeps.  A file is its name and its contents; the  *)
(* name is the tuple of the parts the f-string of lines 159 and 170 joins. *)
(* script_name and timestamp are fixed when the process starts (lines 41   *)
(* and 42): one process run has one value of each.                         *)
(***************************************************************************)
script_name == "v42-rel1"
timestamp == "20250326T010203Z"

\* lines 159 and 170: the name of a kept file
FileName(feedback_iter, code_it, suffix) ==
    <<script_name, timestamp, "fdbk", feedback_iter, "iter", code_it, suffix>>

\* save_code_permanently, lines 154-162: the file it writes
save_code_permanently(code_string, feedback_iter, code_it) ==
    [name |-> FileName(feedback_iter, code_it, ".py"), content |-> code_string]

\* save_output_permanently, lines 165-173: the file it writes
save_output_permanently(output_string, feedback_iter, code_it) ==
    [name |-> FileName(feedback_iter, code_it, ".txt"), content |-> output_string]

(***************************************************************************)
(* State                                                                   *)
(***************************************************************************)
VARIABLES
    pc,                   \* position of main(): loop, gen, run, judge,
                          \* feedback_pass, feedback_fail, summary, done
    MAX_FAIL_WO_FDBK,     \* the configured threshold, fixed at process start
    conversation_history,
    feedback_round,
    code_iter,
    project_complete,
    last_run_output,
    current_code,
    new_code,
    total_passes,
    total_fails,
    pending_fail_code,    \* <<>> is None, <<code>> is a stashed code block
    fails_since_feedback,
    gpt_pass_fail_status,
    user_feedback_status,
    response_judge,       \* the judge reply of the current iteration
    \* history variables, written but never read by the program
    iter,                 \* iterations started
    events,               \* calls made in the current iteration, in order
    typed,                \* <<text>> typed at the prompt of this iteration
    pass_replies,         \* judge replies so far whose Verdict is PASS
    fail_replies,         \* judge replies so far whose Verdict is FAIL
    fails_at_verdict,     \* fails_since_feedback right after the verdict
    at_start,             \* the three counters when the iteration began
    before_gen,           \* the pending code and the pruned history when the
                          \* iteration began, kept until its judge call
    writes,               \* the files written in the iteration, oldest first
    keys,                 \* the (feedback round, code iteration) of every
                          \* iteration so far, oldest first
    \* inputs and results of the pruner taken alone (SpecPrune)
    pPhase, pT, pN, pOut, pOut2,
    \* run_code taken alone (SpecRun)
    rPhase, rCode, rChild, rTemp, rReturn,
    \* extract_code_blocks taken alone (SpecExtract)
    xPhase, xText, xOut,
    \* the verdict taken alone (SpecVerdict)
    vPhase, vReply, vPassFirst, vFailFirst,
    \* the appends and prunings of main() taken alone (SpecIncr)
    iPhase, iFull, iHist, iN

ctl == <<pc, MAX_FAIL_WO_FDBK, conversation_history, feedback_round, code_iter,
         project_complete, last_run_output, current_code, new_code,
         total_passes, total_fails, pending_fail_code, fails_since_feedback,
         gpt_pass_fail_status, user_feedback_status, response_judge,
         iter, events, typed, pass_replies, fail_replies, fails_at_verdict,
         at_start, before_gen, writes, keys>>
prn == <<pPhase, pT, pN, pOut, pOut2>>
run == <<rPhase, rCode, rChild, rTemp, rReturn>>
ext == <<xPhase, xText, xOut>>
ver == <<vPhase, vReply, vPassFirst, vFailFirst>>
inc == <<iPhase, iFull, iHist, iN>>
vars == <<ctl, prn, run, ext, ver, inc>>

PruneIdle ==
    /\ pPhase = "off" /\ pT = <<>> /\ pN = 0 /\ pOut = <<>> /\ pOut2 = <<>>

RunIdle ==
    /\ rPhase = "off" /\ rCode = <<>> /\ rChild = <<>> /\ rTemp = {}
    /\ rReturn = <<>>

ExtractIdle == xPhase = "off" /\ xText = <<>> /\ xOut = <<>>

VerdictIdle ==
    /\ vPhase = "off" /\ vReply = <<>> /\ vPassFirst = "" /\ vFailFirst = ""

IncrIdle == iPhase = "off" /\ iFull = <<>> /\ iHist = <<>> /\ iN = 0

\* main, lines 246-298
CtlInit(K) ==
    /\ MAX_FAIL_WO_FDBK = K
    /\ conversation_history = <<SystemMsg, TaskMsg>>
    /\ feedback_round = 0
    /\ code_iter = 0
    /\ project_complete = FALSE
    /\ last_run_output = <<>>
    /\ current_code = <<>>
    /\ new_code = <<>>
    /\ total_passes = 0
    /\ total_fails = 0
    /\ pending_fail_code = <<>>
    /\ fails_since_feedback = 0
    /\ gpt_pass_fail_status = "INCOMPLETE"
    /\ user_feedback_status = "No feedback yet"
    /\ response_judge = <<>>
    /\ iter = 0
    /\ events = <<>>
    /\ typed = <<>>
    /\ pass_replies = 0
    /\ fail_replies = 0
    /\ fails_at_verdict = 0
    /\ at_start = [passes |-> 0, fails |-> 0, consecutive |-> 0]
    /\ before_gen = [pending |-> <<>>, history |-> <<>>]
    /\ writes = <<>>
    /\ keys = <<>>

Init ==
    /\ pc = "loop"
    /\ \E K \in 1..MaxThreshold : CtlInit(K)
    /\ PruneIdle
    /\ RunIdle
    /\ ExtractIdle
    /\ VerdictIdle
    /\ IncrIdle

(***************************************************************************)
(* What a judge reply says, whatever the program makes of it               *)
(***************************************************************************)
\* the reply holds the PASS sentence in some letter case
SaysPass(reply) ==
    \E i \in 1..Len(reply) : reply[i] \in {PASS_STR, PASS_UPPER, PASS_LOWER}

\* the reply holds the FAIL sentence in some letter case
SaysFail(reply) ==
    \E i \in 1..Len(reply) : reply[i] \in {FAIL_STR, FAIL_UPPER, FAIL_LOWER}

(***************************************************************************)
(* Helpers of main()                                                       *)
(***************************************************************************)
\* request_user_feedback(): <<>> is None, <<text>> is the feedback returned
request_user_feedback_unstripped(user_feedback) ==
    IF user_feedback /= <<>> THEN <<user_feedback>> ELSE <<>>
request_user_feedback(user_feedback) ==
    IF Strip(user_feedback) /= <<>> THEN <<user_feedback>> ELSE <<>>

\* the verdict branches without the stash of lines 424-429 and 450-455
StashNothing(response, pending) == pending

\* lines 424-429 and 450-455: the pending code after a reply that did not pass
StashRevised(response, pending) ==
    LET revised_code == extract_code_blocks(response)
    IN  IF Strip(revised_code) /= <<>> THEN <<revised_code>> ELSE pending

\* line 400
PassesAfter(status, passes) == IF status = "PASS" THEN passes + 1 ELSE passes

\* line 420
FailsAfterCountingIncomplete(status, fails) ==
    IF status /= "PASS" THEN fails + 1 ELSE fails
FailsAfter(status, fails) == IF status = "FAIL" THEN fails + 1 ELSE fails

\* the counter when every reply that did not pass counts
ConsecutiveAfterCountingIncomplete(status, fails) ==
    IF status = "PASS" THEN 0
    ELSE fails + 1

\* lines 401 and 421
ConsecutiveAfter(status, fails) ==
    IF status = "PASS" THEN 0
    ELSE IF status = "FAIL" THEN fails + 1
    ELSE fails

\* line 432
ForceFeedbackAboveThreshold(fails, K) == fails > K
ForceFeedback(fails, K) == fails >= K

\* where main() continues after the verdict branch has updated the counters
AfterVerdict(status, forced) ==
    IF status = "PASS" THEN "feedback_pass"
    ELSE IF status = "FAIL" /\ forced THEN "feedback_fail"
    ELSE "summary"

\* where main() continues after a feedback prompt: line 459
AfterFeedbackJudgeAgain == "judge"
AfterFeedback == "summary"

(***************************************************************************)
(* The loop of main()                                                      *)
(***************************************************************************)
\* lines 300-316: the loop test holds, the per-iteration fields are reset and
\* the history is pruned
BeginIteration ==
    /\ pc = "loop"
    /\ ~project_complete
    /\ iter < MaxIter
    /\ pc' = "gen"
    /\ iter' = iter + 1
    /\ events' = <<>>
    /\ typed' = <<>>
    /\ gpt_pass_fail_status' = "INCOMPLETE"
    /\ user_feedback_status' = "No feedback yet"
    /\ conversation_history' = prune_history(conversation_history, MAX_CODE_HISTORY)
    /\ at_start' = [passes |-> total_passes, fails |-> total_fails,
                    consecutive |-> fails_since_feedback]
    /\ before_gen' = [pending |-> pending_fail_code,
                      history |-> prune_history(conversation_history,
                                                MAX_CODE_HISTORY)]
    /\ UNCHANGED <<MAX_FAIL_WO_FDBK, feedback_round, code_iter, project_complete,
                   last_run_output, current_code, new_code, total_passes,
                   total_fails, pending_fail_code, fails_since_feedback,
                   response_judge, pass_replies, fail_replies, fails_at_verdict,
                   keys>>
    /\ writes' = <<>>
    /\ UNCHANGED <<prn, run, ext, ver, inc>>

\* the reuse branch without line 324: the pending code is not cleared
ReuseKeepsPending ==
    /\ pc = "gen"
    /\ pending_fail_code /= <<>>
    /\ code_iter' = code_iter + 1
    /\ keys' = Append(keys, <<feedback_round, code_iter + 1>>)
    /\ new_code' = pending_fail_code[1]
    /\ pending_fail_code' = pending_fail_code
    /\ pc' = "run"
    /\ UNCHANGED <<MAX_FAIL_WO_FDBK, conversation_history, feedback_round,
                   project_complete, last_run_output, current_code,
                   total_passes, total_fails, fails_since_feedback,
                   gpt_pass_fail_status, user_feedback_status, response_judge,
                   iter, events, typed, pass_replies, fail_replies,
                   fails_at_verdict, at_start,
                   before_gen, writes>>
    /\ UNCHANGED <<prn, run, ext, ver, inc>>

\* lines 320-325: the code of the previous judge reply is reused
Reuse ==
    /\ pc = "gen"
    /\ pending_fail_code /= <<>>
    /\ code_iter' = code_iter + 1
    /\ keys' = Append(keys, <<feedback_round, code_iter + 1>>)
    /\ new_code' = pending_fail_code[1]
    /\ pending_fail_code' = <<>>
    /\ pc' = "run"
    /\ UNCHANGED <<MAX_FAIL_WO_FDBK, conversation_history, feedback_round,
                   project_complete, last_run_output, current_code,
                   total_passes, total_fails, fails_since_feedback,
                   gpt_pass_fail_status, user_feedback_status, response_judge,
                   iter, events, typed, pass_replies, fail_replies,
                   fails_at_verdict, at_start,
                   before_gen, writes>>
    /\ UNCHANGED <<prn, run, ext, ver, inc>>

\* lines 326-353: a generation call; code that is not blank is kept in a file
Generate ==
    /\ pc = "gen"
    /\ pending_fail_code = <<>>
    /\ \E response_gen \in GenReplies :
        LET asked == prune_history(
                         Append(conversation_history, Msg("user", user_msg_gen)),
                         MAX_CODE_HISTORY)
            extracted == extract_code_blocks(response_gen)
        IN  /\ conversation_history' = Append(asked, Msg("assistant", response_gen))
            /\ IF Strip(extracted) = <<>>
               THEN /\ last_run_output' = <<NO_CODE_RETURNED>>
                    /\ new_code' = <<>>
                    /\ writes' = writes
               ELSE /\ last_run_output' = last_run_output
                    /\ new_code' = extracted
                    /\ writes' =
                           Append(writes,
                                  <<iter, save_code_permanently(
                                              extracted, feedback_round,
                                              code_iter + 1)>>)
    /\ code_iter' = code_iter + 1
    /\ keys' = Append(keys, <<feedback_round, code_iter + 1>>)
    /\ events' = Append(events, "gen")
    /\ pc' = "run"
    /\ UNCHANGED <<MAX_FAIL_WO_FDBK, feedback_round, project_complete, current_code,
                   total_passes, total_fails, pending_fail_code,
                   fails_since_feedback, gpt_pass_fail_status,
                   user_feedback_status, response_judge, iter, typed,
                   pass_replies, fail_replies, fails_at_verdict, at_start,
                   before_gen>>
    /\ UNCHANGED <<prn, run, ext, ver, inc>>

\* lines 356-368: the code is run in the sandbox and its output is kept
RunCode ==
    /\ pc = "run"
    /\ Strip(new_code) /= <<>>
    /\ current_code' = new_code
    /\ \E output \in run_code(new_code) :
        /\ last_run_output' = output
        /\ writes' = Append(writes,
                            <<iter, save_output_permanently(
                                        output, feedback_round, code_iter)>>)
    /\ events' = Append(events, "run")
    /\ pc' = "judge"
    /\ UNCHANGED <<MAX_FAIL_WO_FDBK, conversation_history, feedback_round, code_iter,
                   project_complete, new_code, total_passes, total_fails,
                   pending_fail_code, fails_since_feedback,
                   gpt_pass_fail_status, user_feedback_status, response_judge,
                   iter, typed, pass_replies, fail_replies, fails_at_verdict,
                   at_start,
                   before_gen, keys>>
    /\ UNCHANGED <<prn, run, ext, ver, inc>>

\* lines 369-371: there is no code to run
SkipRun ==
    /\ pc = "run"
    /\ Strip(new_code) = <<>>
    /\ current_code' = <<>>
    /\ last_run_output' = <<NO_CODE_RUN>>
    /\ pc' = "judge"
    /\ UNCHANGED <<MAX_FAIL_WO_FDBK, conversation_history, feedback_round, code_iter,
                   project_complete, new_code, total_passes, total_fails,
                   pending_fail_code, fails_since_feedback,
                   gpt_pass_fail_status, user_feedback_status, response_judge,
                   iter, events, typed, pass_replies, fail_replies,
                   fails_at_verdict, at_start,
                   before_gen, writes, keys>>
    /\ UNCHANGED <<prn, run, ext, ver, inc>>

\* lines 374-403, 418-433, 447-457: the judge call and the verdict branch up
\* to the feedback prompt, if there is one
Judge ==
    /\ pc = "judge"
    /\ \E reply \in JudgeReplies :
        LET asked == prune_history(
                         Append(conversation_history,
                                Msg("user", user_msg_judge(current_code, last_run_output))),
                         MAX_CODE_HISTORY)
            status == Verdict(reply)
            consecutive == ConsecutiveAfter(status, fails_since_feedback)
        IN  /\ conversation_history' = Append(asked, Msg("assistant", reply))
            /\ response_judge' = reply
            /\ gpt_pass_fail_status' = status
            /\ total_passes' = PassesAfter(status, total_passes)
            /\ total_fails' = FailsAfter(status, total_fails)
            /\ fails_since_feedback' = consecutive
            /\ fails_at_verdict' = consecutive
            /\ pending_fail_code' =
                   IF status = "PASS" THEN pending_fail_code
                   ELSE StashRevised(reply, pending_fail_code)
            /\ pass_replies' = IF SaysPass(reply) THEN pass_replies + 1
                               ELSE pass_replies
            /\ fail_replies' = IF ~SaysPass(reply) /\ SaysFail(reply)
                               THEN fail_replies + 1 ELSE fail_replies
            /\ pc' = AfterVerdict(status, ForceFeedback(consecutive, MAX_FAIL_WO_FDBK))
    /\ events' = Append(events, "judge")
    /\ before_gen' = [pending |-> <<>>, history |-> <<>>]
    /\ UNCHANGED <<MAX_FAIL_WO_FDBK, feedback_round, code_iter, project_complete,
                   last_run_output, current_code, new_code,
                   user_feedback_status, iter, typed, at_start, writes, keys>>
    /\ UNCHANGED <<prn, run, ext, ver, inc>>

\* handle_user_feedback without the new feedback round
HandleUserFeedbackSameRound(user_feedback) ==
    /\ feedback_round' = feedback_round
    /\ code_iter' = 0
    /\ conversation_history' =
           Append(conversation_history, Msg("user", feedback_msg(user_feedback)))

\* handle_user_feedback, lines 227-241
HandleUserFeedback(user_feedback) ==
    /\ feedback_round' = feedback_round + 1
    /\ code_iter' = 0
    /\ conversation_history' =
           Append(conversation_history, Msg("user", feedback_msg(user_feedback)))

\* lines 404-416: the prompt after a PASS
FeedbackPass ==
    /\ pc = "feedback_pass"
    /\ \E input \in FeedbackInputs :
        LET user_feedback == request_user_feedback(input)
        IN  /\ typed' = <<input>>
            /\ IF user_feedback /= <<>>
               THEN /\ user_feedback_status' = "Changes requested"
                    /\ HandleUserFeedback(user_feedback[1])
                    /\ UNCHANGED project_complete
               ELSE /\ user_feedback_status' = "Accepted"
                    /\ project_complete' = TRUE
                    /\ UNCHANGED <<feedback_round, code_iter, conversation_history>>
    /\ events' = Append(events, "feedback")
    /\ pc' = AfterFeedback
    /\ UNCHANGED <<MAX_FAIL_WO_FDBK, last_run_output, current_code, new_code,
                   total_passes, total_fails, pending_fail_code,
                   fails_since_feedback, gpt_pass_fail_status, response_judge,
                   iter, pass_replies, fail_replies, fails_at_verdict, at_start,
                   before_gen, writes, keys>>
    /\ UNCHANGED <<prn, run, ext, ver, inc>>

\* lines 432-445: the forced prompt after too many FAILs in a row
FeedbackFail ==
    /\ pc = "feedback_fail"
    /\ \E input \in FeedbackInputs :
        LET user_feedback == request_user_feedback(input)
        IN  /\ typed' = <<input>>
            /\ IF user_feedback /= <<>>
               THEN /\ user_feedback_status' = "Changes requested"
                    /\ HandleUserFeedback(user_feedback[1])
               ELSE /\ user_feedback_status' = "No feedback provided (continue)."
                    /\ UNCHANGED <<feedback_round, code_iter, conversation_history>>
    /\ fails_since_feedback' = 0
    /\ events' = Append(events, "feedback")
    /\ pc' = AfterFeedback
    /\ UNCHANGED <<MAX_FAIL_WO_FDBK, project_complete, last_run_output, current_code,
                   new_code, total_passes, total_fails, pending_fail_code,
                   gpt_pass_fail_status, response_judge, iter, pass_replies,
                   fail_replies, fails_at_verdict, at_start,
                   before_gen, writes, keys>>
    /\ UNCHANGED <<prn, run, ext, ver, inc>>

\* lines 459-493: the iteration summary; control returns to the loop test
IterationSummary ==
    /\ pc = "summary"
    /\ pc' = "loop"
    /\ UNCHANGED <<MAX_FAIL_WO_FDBK, conversation_history, feedback_round, code_iter,
                   project_complete, last_run_output, current_code, new_code,
                   total_passes, total_fails, pending_fail_code,
                   fails_since_feedback, gpt_pass_fail_status,
                   user_feedback_status, response_judge, iter, events, typed,
                   pass_replies, fail_replies, fails_at_verdict, at_start,
                   before_gen, writes, keys>>
    /\ UNCHANGED <<prn, run, ext, ver, inc>>

\* lines 300 and 495-500: the loop test fails, the final summary is printed
Finish ==
    /\ pc = "loop"
    /\ project_complete
    /\ pc' = "done"
    /\ UNCHANGED <<MAX_FAIL_WO_FDBK, conversation_history, feedback_round, code_iter,
                   project_complete, last_run_output, current_code, new_code,
                   total_passes, total_fails, pending_fail_code,
                   fails_since_feedback, gpt_pass_fail_status,
                   user_feedback_status, response_judge, iter, events, typed,
                   pass_replies, fail_replies, fails_at_verdict, at_start,
                   before_gen, writes, keys>>
    /\ UNCHANGED <<prn, run, ext, ver, inc>>

Next ==
    \/ BeginIteration
    \/ Reuse
    \/ Generate
    \/ RunCode
    \/ SkipRun
    \/ Judge
    \/ FeedbackPass
    \/ FeedbackFail
    \/ IterationSummary
    \/ Finish

Spec == Init /\ [][Next]_vars

(***************************************************************************)
(* prune_history taken alone: every transcript of at most MaxLen messages  *)
(* after the two pinned ones, every max_code_rounds in 0..MaxRounds        *)
(***************************************************************************)
MaxLen == 4
MaxRounds == 2

\* the kinds of message main() appends, a judge message whose code quotes the
\* feedback marker, an assistant reply that quotes it, and a user message
\* that carries no marker at all
PruneMsgs ==
    { Msg("user", user_msg_gen),
      Msg("user", user_msg_judge(<<"c1">>, <<"stdout">>)),
      Msg("user", user_msg_judge(<<"print", UF_MARK>>, <<"stdout">>)),
      Msg("user", feedback_msg(<<"make it faster">>)),
      Msg("user", <<"a note">>),
      Msg("assistant", <<FENCE, "c1", FENCE>>),
      Msg("assistant", <<UF_MARK, "was taken into account">>) }

SeqsUpTo(S, k) == UNION { [1..j -> S] : j \in 0..k }

InitPrune ==
    /\ pc = "off"
    /\ CtlInit(1)
    /\ pPhase = "in"
    /\ \E rest \in SeqsUpTo(PruneMsgs, MaxLen) : pT = <<SystemMsg, TaskMsg>> \o rest
    /\ pN \in 0..MaxRounds
    /\ pOut = <<>>
    /\ pOut2 = <<>>
    /\ RunIdle
    /\ ExtractIdle
    /\ VerdictIdle
    /\ IncrIdle

\* pOut = prune_history(pT, pN)
PruneOnce ==
    /\ pPhase = "in"
    /\ pOut' = prune_history(pT, pN)
    /\ pPhase' = "once"
    /\ UNCHANGED <<pT, pN, pOut2>>
    /\ UNCHANGED <<ctl, run, ext, ver, inc>>

\* pOut2 = prune_history(pOut, pN)
PruneTwice ==
    /\ pPhase = "once"
    /\ pOut2' = prune_history(pOut, pN)
    /\ pPhase' = "twice"
    /\ UNCHANGED <<pT, pN, pOut>>
    /\ UNCHANGED <<ctl, run, ext, ver, inc>>

NextPrune == PruneOnce \/ PruneTwice

SpecPrune == InitPrune /\ [][NextPrune]_vars

\* the loop of main() and the pruner taken alone, side by side
InitAll == Init \/ InitPrune
NextAll == Next \/ NextPrune
SpecAll == InitAll /\ [][NextAll]_vars

(***************************************************************************)
(* run_code taken alone (lines 121-152).  The child process is an input:   *)
(* what it printed, how long it runs, whether starting it raises, and      *)
(* whether the operating system lets the temporary file be removed         *)
(* (os.remove raising OSError is swallowed, lines 149-152).                *)
(***************************************************************************)
TIMEOUT == 60
MaxOut == 1

RunCodes == { <<"c1">>, <<"c1", WS, "c2">> }

Children ==
    [stdout : SeqsUpTo({"out"}, MaxOut), stderr : SeqsUpTo({"err"}, MaxOut),
     runs_for : {1, TIMEOUT, TIMEOUT + 1}, raises : BOOLEAN,
     removable : BOOLEAN]

\* lines 131-136: how subprocess.run ends
subprocess_run(child) ==
    IF child.raises THEN "Exception"
    ELSE IF child.runs_for > TIMEOUT THEN "TimeoutExpired"
    ELSE "result"

\* the return value with what the child printed before it was killed
run_code_return_partial(child) ==
    IF subprocess_run(child) = "result"
    THEN child.stdout \o <<"\n">> \o child.stderr
         \o <<"\n", "[Code execution took", ToString(child.runs_for),
              "seconds.]", "\n">>
    ELSE IF subprocess_run(child) = "TimeoutExpired"
    THEN child.stdout \o <<TIMEOUT_MARKER>>
    ELSE <<"Error: exception text">>

\* lines 137-147: the value the try statement returns
run_code_return(child) ==
    IF subprocess_run(child) = "result"
    THEN child.stdout \o <<"\n">> \o child.stderr
         \o <<"\n", "[Code execution took", ToString(child.runs_for),
              "seconds.]", "\n">>
    ELSE IF subprocess_run(child) = "TimeoutExpired"
    THEN <<TIMEOUT_MARKER>>
    ELSE <<"Error: exception text">>

InitRun ==
    /\ pc = "off"
    /\ CtlInit(1)
    /\ PruneIdle
    /\ ExtractIdle
    /\ VerdictIdle
    /\ IncrIdle
    /\ rPhase = "start"
    /\ rCode \in RunCodes
    /\ rChild = <<>>
    /\ rTemp = {}
    /\ rReturn = <<>>

\* lines 126-128: the code is written to a temporary file that stays on disk
WriteTemp ==
    /\ rPhase = "start"
    /\ rTemp' = { [name |-> "temp_name", content |-> rCode] }
    /\ rPhase' = "try"
    /\ UNCHANGED <<rCode, rChild, rReturn>>
    /\ UNCHANGED <<ctl, prn, ext, ver, inc>>

\* lines 130-147: the child runs; the try statement has its return value
TryRun ==
    /\ rPhase = "try"
    /\ \E child \in Children :
        /\ rChild' = <<child>>
        /\ rReturn' = run_code_return(child)
    /\ rPhase' = "finally"
    /\ UNCHANGED <<rCode, rTemp>>
    /\ UNCHANGED <<ctl, prn, ext, ver, inc>>

\* lines 148-152: the finally clause, then the function returns
FinallyRemove ==
    /\ rPhase = "finally"
    /\ rTemp' = IF rChild[1].removable THEN {} ELSE rTemp
    /\ rPhase' = "returned"
    /\ UNCHANGED <<rCode, rChild, rReturn>>
    /\ UNCHANGED <<ctl, prn, ext, ver, inc>>

NextRun == WriteTemp \/ TryRun \/ FinallyRemove

SpecRun == InitRun /\ [][NextRun]_vars

(***************************************************************************)
(* extract_code_blocks taken alone (lines 110-118): every text of up to    *)
(* MaxTextLen tokens over fences, the language tag, whitespace and two     *)
(* words, and the two texts of the docstring's cases.                      *)
(***************************************************************************)
MaxTextLen == 4

NoFencesText == <<"no fences here">>
TwoBlocksText == <<FENCE, "a", FENCE, "text", FENCE, "b", FENCE>>

ExtractTexts ==
    SeqsUpTo({FENCE, PY, WS, "a", "b"}, MaxTextLen)
        \cup {NoFencesText, TwoBlocksText}

InitExtract ==
    /\ pc = "off"
    /\ CtlInit(1)
    /\ PruneIdle
    /\ RunIdle
    /\ VerdictIdle
    /\ IncrIdle
    /\ xPhase = "in"
    /\ xText \in ExtractTexts
    /\ xOut = <<>>

\* xOut = extract_code_blocks(xText)
Extract ==
    /\ xPhase = "in"
    /\ xOut' = extract_code_blocks(xText)
    /\ xPhase' = "out"
    /\ UNCHANGED xText
    /\ UNCHANGED <<ctl, prn, run, ver, inc>>

NextExtract == Extract

SpecExtract == InitExtract /\ [][NextExtract]_vars

(***************************************************************************)
(* The classification of a judge reply taken alone (lines 397-447): every  *)
(* reply of up to MaxReply tokens over the two sentinels in two letter     *)
(* cases and a word.  The reply is classified as main() does it, PASS test *)
(* first, and with the same two tests in the other order.                  *)
(***************************************************************************)
MaxReply == 3

VerdictReplies ==
    SeqsUpTo({PASS_STR, PASS_UPPER, FAIL_STR, FAIL_LOWER, "text"}, MaxReply)

\* the tests of lines 398 and 418 in the other order
VerdictFailFirst(reply) ==
    IF ContainsFail(reply) THEN "FAIL"
    ELSE IF ContainsPass(reply) THEN "PASS"
    ELSE "INCOMPLETE"

InitVerdict ==
    /\ pc = "off"
    /\ CtlInit(1)
    /\ PruneIdle
    /\ RunIdle
    /\ ExtractIdle
    /\ vPhase = "in"
    /\ vReply \in VerdictReplies
    /\ vPassFirst = ""
    /\ vFailFirst = ""
    /\ IncrIdle

Classify ==
    /\ vPhase = "in"
    /\ vPassFirst' = Verdict(vReply)
    /\ vFailFirst' = VerdictFailFirst(vReply)
    /\ vPhase' = "out"
    /\ UNCHANGED vReply
    /\ UNCHANGED <<ctl, prn, run, ext, inc>>

NextVerdict == Classify

SpecVerdict == InitVerdict /\ [][NextVerdict]_vars

(***************************************************************************)
(* The appends and prunings of main() taken alone.  iHist is the history   *)
(* as main() keeps it: pruned at the top of the loop (line 316) and after  *)
(* the append of each generation or judgment message (lines 336-337 and    *)
(* 387-388), not pruned after the append of a reply (lines 344 and 395) or *)
(* of a feedback message (line 240).  iFull is the same sequence of        *)
(* appends with no pruning at all.                                         *)
(***************************************************************************)
MaxAppends == 6

\* the messages main() appends just before a completion call
CallMsgs ==
    { m \in PruneMsgs :
          m.role = "user"
          /\ (Contains(m.content, GEN_MARK) \/ Contains(m.content, JUDGE_MARK)) }

\* the replies of the completion client
ReplyMsgs == { m \in PruneMsgs : m.role = "assistant" }

\* the messages handle_user_feedback appends
FeedbackMsgs == { Msg("user", feedback_msg(<<"make it faster">>)) }

InitIncr ==
    /\ pc = "off"
    /\ CtlInit(1)
    /\ PruneIdle
    /\ RunIdle
    /\ ExtractIdle
    /\ VerdictIdle
    /\ iPhase = "loop"
    /\ iFull = <<SystemMsg, TaskMsg>>
    /\ iHist = <<SystemMsg, TaskMsg>>
    /\ iN \in 0..MaxRounds

\* line 316: the pruning at the top of the loop
PruneAtLoopTop ==
    /\ iPhase \in {"loop", "replied", "feedback"}
    /\ iHist' = prune_history(iHist, iN)
    /\ iPhase' = "top"
    /\ UNCHANGED <<iFull, iN>>
    /\ UNCHANGED <<ctl, prn, run, ext, ver>>

\* the message is appended after the pruning instead of before it
AppendCallMsgAfterPrune ==
    /\ iPhase \in {"top", "replied"}
    /\ Len(iFull) < 2 + MaxAppends
    /\ \E m \in CallMsgs :
        /\ iFull' = Append(iFull, m)
        /\ iHist' = Append(prune_history(iHist, iN), m)
    /\ iPhase' = "call"
    /\ UNCHANGED iN
    /\ UNCHANGED <<ctl, prn, run, ext, ver>>

\* lines 336-339 and 387-390: a generation or judgment message is appended,
\* the history is pruned and passed to the completion client
AppendCallMsg ==
    /\ iPhase \in {"top", "replied"}
    /\ Len(iFull) < 2 + MaxAppends
    /\ \E m \in CallMsgs :
        /\ iFull' = Append(iFull, m)
        /\ iHist' = prune_history(Append(iHist, m), iN)
    /\ iPhase' = "call"
    /\ UNCHANGED iN
    /\ UNCHANGED <<ctl, prn, run, ext, ver>>

\* lines 344 and 395: the reply is appended
AppendReply ==
    /\ iPhase = "call"
    /\ Len(iFull) < 2 + MaxAppends
    /\ \E m \in ReplyMsgs :
        /\ iFull' = Append(iFull, m)
        /\ iHist' = Append(iHist, m)
    /\ iPhase' = "replied"
    /\ UNCHANGED iN
    /\ UNCHANGED <<ctl, prn, run, ext, ver>>

\* line 240: the feedback message is appended after a judge reply
AppendFeedback ==
    /\ iPhase = "replied"
    /\ Len(iFull) < 2 + MaxAppends
    /\ \E m \in FeedbackMsgs :
        /\ iFull' = Append(iFull, m)
        /\ iHist' = Append(iHist, m)
    /\ iPhase' = "feedback"
    /\ UNCHANGED iN
    /\ UNCHANGED <<ctl, prn, run, ext, ver>>

NextIncr == PruneAtLoopTop \/ AppendCallMsg \/ AppendReply \/ AppendFeedback

SpecIncr == InitIncr /\ [][NextIncr]_vars

(***************************************************************************)
(* Properties of prune_history                                             *)
(***************************************************************************)
Min(a, b) == IF a <= b THEN a ELSE b

\* a message that the scan counts as a round: not kept as feedback, not an
\* assistant message, carrying one of the two step markers
IsCountedRound(msg) ==
    /\ ~IsFeedbackMsg(msg)
    /\ msg.role /= "assistant"
    /\ IsRoundMsg(msg)

CountedRounds(history) == Len(SelectSeq(Remainder(history), IsCountedRound))

\* the exchange pairs of a transcript, oldest first: a user message tagged
\* Code Generation Step or Code Judgment Step and the assistant reply that
\* follows it
RECURSIVE PairsOf(_)
PairsOf(history) ==
    IF Len(history) < 2 THEN <<>>
    ELSE IF /\ history[1].role = "user"
            /\ IsRoundMsg(history[1])
            /\ history[2].role = "assistant"
         THEN <<SubSeq(history, 1, 2)>> \o PairsOf(SubSeq(history, 3, Len(history)))
         ELSE PairsOf(Tail(history))

IsSuffix(a, b) ==
    /\ Len(a) <= Len(b)
    /\ a = SubSeq(b, Len(b) - Len(a) + 1, Len(b))

\* C1: pruning is idempotent: pruning the result of prune_history(T, n) again
\* with the same n gives that result back.
C1_Idempotent == pPhase = "twice" => pOut2 = pOut

\* C1 witness: a second pruning of a transcript whose first pruning dropped
\* some messages and kept others besides the pinned two
C1_Witness ==
    /\ pPhase = "twice"
    /\ Len(pOut) < Len(pT)
    /\ Len(pOut) > 3
    /\ pN > 0

\* C2: the first two messages of prune_history(T, n) are the first two
\* messages of T, and in every state of main() index 0 of the history is the
\* system prompt and index 1 the task description.
C2_PinnedKept ==
    /\ pPhase \in {"once", "twice"} =>
           /\ Len(pOut) >= 2
           /\ pOut[1] = pT[1]
           /\ pOut[2] = pT[2]
    /\ pc /= "off" =>
           /\ Len(conversation_history) >= 2
           /\ conversation_history[1] = SystemMsg
           /\ conversation_history[2] = TaskMsg

\* C2 witness: the end of a second iteration of main() that generated code,
\* after the pruner has dropped the oldest exchange from the history
C2_Witness ==
    /\ pc = "summary"
    /\ iter = 2
    /\ events[1] = "gen"
    /\ Len(conversation_history) <= 8
    /\ conversation_history[2] = TaskMsg

\* C3: every user message that contains the feedback marker survives
\* pruning, for every n including 0, and keeping it costs no round: the
\* rounds kept are the newest n (or all of them when there are fewer).
C3_FeedbackKept ==
    pPhase \in {"once", "twice"} =>
        /\ SelectSeq(pOut, IsFeedbackMsg) = SelectSeq(pT, IsFeedbackMsg)
        /\ CountedRounds(pOut) = Min(pN, CountedRounds(pT))

\* C3 witness: a budget of one round, two feedback messages newer than two
\* rounds: both feedback messages and one round are kept
C3_Witness ==
    /\ pPhase = "once"
    /\ pN = 1
    /\ Len(pT) = 6
    /\ IsCountedRound(pT[3])
    /\ IsCountedRound(pT[4])
    /\ IsFeedbackMsg(pT[5])
    /\ IsFeedbackMsg(pT[6])
    /\ Len(pOut) = 5

\* C4: the pruned history holds at most max_code_rounds exchange pairs, and
\* they are the most recent pairs of the history that was pruned.
C4_AtMostNPairs ==
    LET pruned == prune_history(conversation_history, MAX_CODE_HISTORY)
    IN  pc /= "off" =>
            /\ Len(PairsOf(pruned)) <= MAX_CODE_HISTORY
            /\ IsSuffix(PairsOf(pruned), PairsOf(conversation_history))

(***************************************************************************)
(* Properties of the loop of main()                                        *)
(***************************************************************************)
\* the judge has answered in the current iteration
Judged == pc \in {"feedback_pass", "feedback_fail", "summary"}

\* the current iteration is over
IterationOver == pc = "summary"

\* a feedback prompt has been or is being issued in the current iteration
Prompted ==
    \/ pc \in {"feedback_pass", "feedback_fail"}
    \/ \E i \in 1..Len(events) : events[i] = "feedback"

\* the operator answered the prompt of this iteration with nothing but
\* whitespace
TypedBlank == typed /= <<>> /\ \A i \in 1..Len(typed[1]) : typed[1][i] = WS

\* C5: a judge reply that holds the PASS sentence in any letter case and not
\* the FAIL sentence is classified PASS: total_passes goes up by one,
\* fails_since_feedback is 0 and the operator is asked for feedback.
C5_PassVerdict ==
    (Judged /\ SaysPass(response_judge) /\ ~SaysFail(response_judge)) =>
        /\ gpt_pass_fail_status = "PASS"
        /\ total_passes = at_start.passes + 1
        /\ total_fails = at_start.fails
        /\ fails_since_feedback = 0
        /\ Prompted

\* C5 witness: the prompt after an upper-case PASS reply that follows a FAIL
C5_Witness ==
    /\ pc = "feedback_pass"
    /\ response_judge = <<PASS_UPPER>>
    /\ at_start.consecutive = 1
    /\ fails_since_feedback = 0

\* the positions of the fences of a text
FencePositions(text) == { i \in 1..Len(text) : text[i] = FENCE }

\* the text ends with a fenced block and its fences pair up
HasTrailingBlock(text) ==
    /\ Len(text) >= 2
    /\ text[Len(text)] = FENCE
    /\ Cardinality(FencePositions(text)) >= 2
    /\ Cardinality(FencePositions(text)) % 2 = 0

\* what stands between the last two fences, without the language tag and the
\* surrounding whitespace
TrailingBlockContents(text) ==
    LET close == Len(text)
        open == CHOOSE i \in FencePositions(text) \ {close} :
                    \A j \in FencePositions(text) \ {close} : j <= i
        raw == SubSeq(text, open + 1, close - 1)
    IN  Strip(IF raw /= <<>> /\ raw[1] = PY THEN Tail(raw) ELSE raw)

\* a reply that holds the FAIL sentence, not the PASS sentence, and ends with
\* a fenced block has been received in the iteration that is ending
FailWithBlock ==
    /\ pc \in {"feedback_fail", "summary"}
    /\ SaysFail(response_judge)
    /\ ~SaysPass(response_judge)
    /\ HasTrailingBlock(response_judge)

\* C6 as stated: after a FAIL reply that ends with a fenced block the verdict
\* is FAIL and the pending code is the contents of that block.
C6_StashedIsBlock ==
    FailWithBlock =>
        /\ gpt_pass_fail_status = "FAIL"
        /\ pending_fail_code = <<TrailingBlockContents(response_judge)>>

\* C6 amended: after a FAIL reply that ends with a fenced block the verdict
\* is FAIL; the pending code is the contents of that block when they are not
\* blank, and nothing is stashed when they are.
C6_StashedIsNonBlankBlock ==
    FailWithBlock =>
        /\ gpt_pass_fail_status = "FAIL"
        /\ total_fails = at_start.fails + 1
        /\ pending_fail_code =
               IF TrailingBlockContents(response_judge) /= <<>>
               THEN <<TrailingBlockContents(response_judge)>>
               ELSE <<>>

\* C6 witness: a lower-case FAIL reply with two blocks, the second stashed
C6_Witness ==
    /\ pc = "summary"
    /\ SaysFail(response_judge)
    /\ Cardinality(FencePositions(response_judge)) = 4
    /\ pending_fail_code = << <<"c2">> >>

\* the iteration ended with a PASS verdict and a blank answer at the prompt
PassAccepted == gpt_pass_fail_status = "PASS" /\ TypedBlank

\* C7: the loop halts exactly when an iteration ends with a PASS verdict and
\* empty or whitespace-only feedback, and it halts at the end of that
\* iteration: project_complete is set by nothing else, no step of a later
\* iteration is taken with it set, and the final summary is reached only
\* with it set.
C7_HaltsOnlyOnAcceptedPass ==
    /\ pc \in {"summary", "loop", "done"} => (project_complete <=> PassAccepted)
    /\ pc \in {"gen", "run", "judge", "feedback_pass", "feedback_fail"} =>
           ~project_complete
    /\ pc = "done" => (project_complete /\ PassAccepted)

\* C7 witness: the loop has halted in its second iteration on a
\* whitespace-only answer
C7_Witness ==
    /\ pc = "done"
    /\ iter = 2
    /\ typed = << <<WS>> >>
    /\ total_fails = 1

\* C8: total_passes is the number of judge replies classified PASS and
\* total_fails the number classified FAIL; a run whose first reply is a PASS
\* answered with empty feedback ends after one iteration with totals 1 and 0.
C8_TotalsCountVerdicts ==
    /\ total_passes = pass_replies
    /\ total_fails = fail_replies
    /\ (iter = 1 /\ IterationOver /\ PassAccepted) =>
           /\ project_complete
           /\ total_passes = 1
           /\ total_fails = 0
    /\ (pc = "done" /\ iter = 1) => (total_passes = 1 /\ total_fails = 0)

\* C8 witness: the final summary after a FAIL in the first iteration and an
\* accepted PASS in the second
C8_Witness ==
    /\ pc = "done"
    /\ iter = 2
    /\ total_passes = 1
    /\ total_fails = 1

\* C9: when a FAIL verdict brings fails_since_feedback to the threshold, the
\* operator is prompted in that iteration and the counter is 0 when the
\* iteration ends, whatever was typed; so the counter is below the threshold
\* when an iteration starts.
C9_ForcedFeedbackResets ==
    /\ pc \in {"loop", "gen", "run", "judge", "summary"} =>
           fails_since_feedback < MAX_FAIL_WO_FDBK
    /\ (Judged /\ gpt_pass_fail_status = "FAIL" /\ fails_at_verdict >= MAX_FAIL_WO_FDBK) =>
           Prompted
    /\ (IterationOver /\ gpt_pass_fail_status = "FAIL"
                      /\ fails_at_verdict >= MAX_FAIL_WO_FDBK) =>
           (typed /= <<>> /\ fails_since_feedback = 0)
    /\ pc = "feedback_fail" => fails_at_verdict = at_start.consecutive + 1

\* C9 witness: the second FAIL in a row with a threshold of 2, the forced
\* prompt answered with nothing, the counter back at 0
C9_Witness ==
    /\ IterationOver
    /\ MAX_FAIL_WO_FDBK = 2
    /\ gpt_pass_fail_status = "FAIL"
    /\ fails_at_verdict = 2
    /\ typed = << <<>> >>
    /\ fails_since_feedback = 0

\* the place of a call in an iteration
Rank(e) ==
    IF e = "gen" THEN 1 ELSE IF e = "run" THEN 2 ELSE IF e = "judge" THEN 3 ELSE 4

Count(s, e) == Cardinality({ i \in 1..Len(s) : s[i] = e })

\* C10: in an iteration the calls come in the order generation, run, judge,
\* feedback prompt, each at most once and the judge call exactly once.
C10_CallOrder ==
    /\ \A i \in 1..Len(events) : \A j \in 1..Len(events) :
           i < j => Rank(events[i]) < Rank(events[j])
    /\ (Judged \/ (pc \in {"loop", "done"} /\ iter > 0)) =>
           Count(events, "judge") = 1
    /\ pc \in {"gen", "run", "judge"} => Count(events, "judge") = 0
    /\ pc \in {"feedback_pass", "feedback_fail"} => Count(events, "feedback") = 0

\* C10 witness: an iteration that made all four calls
C10_Witness ==
    /\ IterationOver
    /\ events = <<"gen", "run", "judge", "feedback">>

\* the files an iteration wrote
WrittenBy(k) == { writes[i][2] : i \in { j \in 1..Len(writes) : writes[j][1] = k } }

\* C11: in every iteration that runs code that is not empty, generated or
\* reused, the code and the combined run output are both kept in files named
\* by the iteration's feedback round and code iteration.
C11_CodeAndOutputSaved ==
    (pc = "judge" /\ "run" \in { events[i] : i \in 1..Len(events) }) =>
        /\ save_code_permanently(current_code, feedback_round, code_iter)
               \in WrittenBy(iter)
        /\ save_output_permanently(last_run_output, feedback_round, code_iter)
               \in WrittenBy(iter)

\* the key in a file name: its feedback round and its code iteration
KeyOf(file) == <<file.name[4], file.name[6]>>

\* lexicographic order on keys
KeyLess(a, b) == a[1] < b[1] \/ (a[1] = b[1] /\ a[2] < b[2])

\* C12: the keys used by successive iterations strictly increase in
\* lexicographic order, every file of an iteration is written under the
\* iteration's key and no file name is written twice, so no file of an
\* earlier iteration is overwritten.
C12_KeysIncrease ==
    /\ \A i \in 1..Len(keys) : \A j \in 1..Len(keys) :
           i < j => KeyLess(keys[i], keys[j])
    /\ Len(keys) = IF pc = "gen" THEN iter - 1 ELSE iter
    /\ \A i \in 1..Len(writes) :
           /\ writes[i][1] = iter
           /\ KeyOf(writes[i][2]) = keys[Len(keys)]
           /\ \A j \in 1..Len(writes) :
                  i < j => writes[i][2].name /= writes[j][2].name

\* C12 witness: the code iteration started again at 1 in a new feedback round:
\* the keys (0, 1) and then (1, 1) were used, and both files of the second
\* iteration are written
C12_Witness ==
    /\ keys = << <<0, 1>>, <<1, 1>> >>
    /\ Len(writes) = 2

(***************************************************************************)
(* Properties of run_code                                                  *)
(***************************************************************************)
\* the child ran longer than the timeout allows
ChildTimedOut == rChild /= <<>> /\ ~rChild[1].raises /\ rChild[1].runs_for > TIMEOUT

\* C13: when the child exceeds the timeout, run_code returns the fixed marker
\* and nothing else, and the temporary file is removed on this path as on the
\* success and exception paths (whenever the file can be removed at all).
C13_TimeoutMarkerOnly ==
    /\ (rPhase \in {"finally", "returned"} /\ ChildTimedOut) =>
           rReturn = <<TIMEOUT_MARKER>>
    /\ (rPhase = "returned" /\ rChild[1].removable) => rTemp = {}
    /\ rPhase \in {"try", "finally"} =>
           rTemp = { [name |-> "temp_name", content |-> rCode] }

\* C13 witness: a child that printed to both streams and was killed at the
\* timeout; the marker alone was returned and the file is gone
C13_Witness ==
    /\ rPhase = "returned"
    /\ ChildTimedOut
    /\ rChild[1].stdout /= <<>>
    /\ rChild[1].stderr /= <<>>
    /\ rReturn = <<TIMEOUT_MARKER>>
    /\ rTemp = {}

(***************************************************************************)
(* Properties of extract_code_blocks                                       *)
(***************************************************************************)
\* the number of fences before position i
FencesBefore(text, i) == Cardinality({ j \in FencePositions(text) : j < i })

\* fences pair up from the left: the number of complete fenced blocks
CompleteBlocks(text) == Cardinality(FencePositions(text)) \div 2

\* what stands between the fences of the last complete block, without the
\* language tag and the surrounding whitespace
LastBlockContents(text) ==
    LET m == CompleteBlocks(text)
        open == CHOOSE i \in FencePositions(text) :
                    FencesBefore(text, i) = 2 * m - 2
        close == CHOOSE i \in FencePositions(text) :
                     FencesBefore(text, i) = 2 * m - 1
        raw == SubSeq(text, open + 1, close - 1)
    IN  Strip(IF raw /= <<>> /\ raw[1] = PY THEN Tail(raw) ELSE raw)

\* C14: extract_code_blocks returns the contents of the last complete fenced
\* block when there is one and the empty text otherwise; a text without
\* fences gives the empty text and fence a fence text fence b fence gives b.
C14_LastCompleteBlock ==
    xPhase = "out" =>
        /\ xOut = IF CompleteBlocks(xText) >= 1
                  THEN LastBlockContents(xText) ELSE <<>>
        /\ xText = NoFencesText => xOut = <<>>
        /\ xText = TwoBlocksText => xOut = <<"b">>

\* C14 witness: two complete blocks with text between them; the second block
\* was returned
C14_Witness ==
    /\ xPhase = "out"
    /\ xText = TwoBlocksText
    /\ xOut = <<"b">>

(***************************************************************************)
(* Properties of the reuse of pending code                                 *)
(***************************************************************************)
\* the iteration under way (or just over) began with pending code
StartedWithPending == pc \in {"gen", "run", "judge"} /\ before_gen.pending /= <<>>

Happened(e) == e \in { events[i] : i \in 1..Len(events) }

\* C15: an iteration that starts with pending code makes no generation call
\* and appends no generation message, runs exactly that code, which is never
\* blank, and has cleared the pending code before the judge step.
C15_PendingReusedOnce ==
    /\ pending_fail_code /= <<>> => Strip(pending_fail_code[1]) /= <<>>
    /\ StartedWithPending =>
           /\ ~Happened("gen")
           /\ pc = "run" =>
                  /\ new_code = before_gen.pending[1]
                  /\ pending_fail_code = <<>>
                  /\ conversation_history = before_gen.history
           /\ pc = "judge" =>
                  /\ Happened("run")
                  /\ current_code = before_gen.pending[1]
                  /\ pending_fail_code = <<>>
                  /\ conversation_history = before_gen.history

\* C15 witness: the second iteration ran the block "c2" of the first judge
\* reply without a generation call and stands before its judge call
C15_Witness ==
    /\ pc = "judge"
    /\ iter = 2
    /\ before_gen.pending = << <<"c2">> >>
    /\ events = <<"run">>
    /\ current_code = <<"c2">>
    /\ pending_fail_code = <<>>

(***************************************************************************)
(* Properties of a judge reply that names neither sentinel                 *)
(***************************************************************************)
\* the judge reply of the current iteration names neither sentinel
RepliedNeither ==
    Happened("judge") /\ ~SaysPass(response_judge) /\ ~SaysFail(response_judge)

\* the reply holds a complete fenced block whose contents are not blank
HasNonBlankBlock(reply) ==
    CompleteBlocks(reply) >= 1 /\ LastBlockContents(reply) /= <<>>

\* C16: an Incomplete verdict leaves the consecutive-fail counter and both
\* totals as they were, issues no feedback prompt, and stashes the reply's
\* last code block as pending code when that block is not blank.
C16_IncompleteKeepsCounters ==
    RepliedNeither =>
        /\ gpt_pass_fail_status = "INCOMPLETE"
        /\ total_passes = at_start.passes
        /\ total_fails = at_start.fails
        /\ fails_since_feedback = at_start.consecutive
        /\ ~Prompted
        /\ typed = <<>>
        /\ HasNonBlankBlock(response_judge) =>
               pending_fail_code = <<LastBlockContents(response_judge)>>

\* C16 witness: after one FAIL, a reply with neither sentinel and the block
\* "c2": the counters stand where they stood and "c2" is pending
C16_Witness ==
    /\ IterationOver
    /\ response_judge = <<"neither sentence", FENCE, "c2", FENCE>>
    /\ Happened("judge")
    /\ at_start.consecutive = 1
    /\ fails_since_feedback = 1
    /\ total_fails = 1
    /\ pending_fail_code = << <<"c2">> >>

\* the judge call of the current iteration failed at the backend
JudgeCallFailed == Happened("judge") /\ response_judge = <<ERROR_PLACEHOLDER>>

\* C17 as stated: the placeholder of a failed judge call is handled as a
\* failing reply: the verdict is FAIL and the consecutive-fail counter and the
\* total of fails each go up by one.
C17_PlaceholderIsFail ==
    JudgeCallFailed =>
        /\ gpt_pass_fail_status = "FAIL"
        /\ total_fails = at_start.fails + 1
        /\ fails_at_verdict = at_start.consecutive + 1

\* C17 as the code has it: the placeholder names neither sentinel, so the
\* verdict is INCOMPLETE, no counter moves, no feedback prompt is issued,
\* nothing is stashed and the loop goes on.
C17_PlaceholderIsIncomplete ==
    JudgeCallFailed =>
        /\ gpt_pass_fail_status = "INCOMPLETE"
        /\ total_fails = at_start.fails
        /\ total_passes = at_start.passes
        /\ fails_since_feedback = at_start.consecutive
        /\ ~Prompted
        /\ ~project_complete
        /\ pending_fail_code = <<>>
        /\ pc /= "done"

\* C17 witness: one FAIL short of the forced prompt, the judge call fails at
\* the backend; the iteration ends without a prompt, the counter unmoved
C17_Witness ==
    /\ IterationOver
    /\ JudgeCallFailed
    /\ MAX_FAIL_WO_FDBK = 2
    /\ at_start.consecutive = 1
    /\ fails_since_feedback = 1
    /\ gpt_pass_fail_status = "INCOMPLETE"

\* the previous iteration's judge reply named neither sentinel and the next
\* iteration has passed its generation step
NextStepAfterNeither ==
    /\ iter >= 2
    /\ pc = "run"
    /\ ~SaysPass(response_judge)
    /\ ~SaysFail(response_judge)

\* the generation step of this iteration appended its message and the reply
GenerationAppended ==
    /\ Happened("gen")
    /\ Len(conversation_history) >= 2
    /\ conversation_history[Len(conversation_history) - 1] =
           Msg("user", user_msg_gen)
    /\ conversation_history[Len(conversation_history)].role = "assistant"

\* C18 as stated: after a judge reply with neither sentinel the loop does not
\* halt and the next iteration makes a generation call.
C18_GeneratesAfterNeither ==
    /\ (RepliedNeither /\ pc \in {"summary", "loop"}) => ~project_complete
    /\ NextStepAfterNeither => GenerationAppended

\* C18 as the code has it: the loop does not halt, and the next iteration
\* makes a generation call exactly when the reply held no code block that is
\* not blank; otherwise it runs that block without a generation call.
C18_GeneratesUnlessBlock ==
    /\ (RepliedNeither /\ pc \in {"summary", "loop"}) => ~project_complete
    /\ (RepliedNeither /\ pc = "done") => FALSE
    /\ NextStepAfterNeither =>
           IF HasNonBlankBlock(response_judge)
           THEN /\ ~Happened("gen")
                /\ new_code = LastBlockContents(response_judge)
           ELSE GenerationAppended

\* C18 witness: the first judge call failed at the backend, a reply with
\* neither sentinel and no block; the second iteration generated code
C18_Witness ==
    /\ NextStepAfterNeither
    /\ response_judge = <<ERROR_PLACEHOLDER>>
    /\ GenerationAppended

(***************************************************************************)
(* Properties of the classification of a judge reply                       *)
(***************************************************************************)
\* the reply holds both sentinels
SaysBoth(reply) == SaysPass(reply) /\ SaysFail(reply)

\* C19 as stated: classifying with the PASS test first gives the same verdict
\* as classifying with the FAIL test first, because no reply matches both
\* sentinels.
C19_OrderIrrelevant ==
    vPhase = "out" => (vPassFirst = vFailFirst /\ ~SaysBoth(vReply))

\* C19 as the code has it: the two orders give the same verdict exactly for
\* the replies that hold at most one sentinel; a reply that holds both is a
\* PASS with the PASS test first and a FAIL with the FAIL test first.
C19_OrderMattersForBoth ==
    vPhase = "out" =>
        /\ vPassFirst = IF SaysPass(vReply) THEN "PASS"
                        ELSE IF SaysFail(vReply) THEN "FAIL" ELSE "INCOMPLETE"
        /\ (vPassFirst = vFailFirst) <=> ~SaysBoth(vReply)
        /\ SaysBoth(vReply) => (vPassFirst = "PASS" /\ vFailFirst = "FAIL")

\* C19 witness: a reply that says FAIL and quotes the PASS sentence
C19_Witness ==
    /\ vPhase = "out"
    /\ vReply = <<FAIL_STR, "text", PASS_STR>>
    /\ vPassFirst = "PASS"
    /\ vFailFirst = "FAIL"

(***************************************************************************)
(* prune_history returns a subsequence                                     *)
(***************************************************************************)
\* s is t with some messages left out: the messages of s are messages of t,
\* in the order of t, none used twice
RECURSIVE IsSubseq(_, _)
IsSubseq(s, t) ==
    IF s = <<>> THEN TRUE
    ELSE IF t = <<>> THEN FALSE
    ELSE IF Head(s) = Head(t) THEN IsSubseq(Tail(s), Tail(t))
    ELSE IsSubseq(s, Tail(t))

\* C20: prune_history(T, n) is a subsequence of T: every surviving message is
\* an unchanged message of T, the survivors keep their order, nothing is
\* added or duplicated.
C20_PrunedIsSubsequence ==
    /\ pPhase \in {"once", "twice"} =>
           /\ IsSubseq(pOut, pT)
           /\ Len(pOut) <= Len(pT)
    /\ pPhase = "twice" => IsSubseq(pOut2, pOut)

\* C20 witness: a transcript with the same message at two places, pruned to
\* fewer messages, of which more than the pinned two survive
C20_Witness ==
    /\ pPhase = "once"
    /\ \E i \in 3..Len(pT) : \E j \in 3..Len(pT) : i < j /\ pT[i] = pT[j]
    /\ Len(pOut) < Len(pT)
    /\ Len(pOut) > 3

(***************************************************************************)
(* Incremental pruning against pruning the whole history                   *)
(***************************************************************************)
\* C21: at every completion call the history main() passes, pruned again and
\* again after each append, equals prune_history applied once with the same
\* number of rounds to all the messages appended so far.
C21_IncrementalIsOneShot ==
    /\ iPhase = "call" => iHist = prune_history(iFull, iN)
    /\ iPhase = "top" => iHist = prune_history(iFull, iN)

\* C21 witness: a completion call before which two prunings each dropped
\* messages, with other messages than the pinned two still kept
C21_Witness ==
    /\ iPhase = "call"
    /\ iN = 1
    /\ Len(iFull) = 2 + MaxAppends
    /\ Len(iHist) > 2
    /\ Len(iFull) - Len(iHist) >= 3
    /\ \E i \in 3..Len(iFull) : IsFeedbackMsg(iFull[i])

(***************************************************************************)
(* The iteration after accepted feedback                                   *)
(***************************************************************************)
\* the iteration under way is the first of a new feedback round and has
\* passed its generation step: the iteration before it ended with feedback
\* that was not empty
FirstAfterFeedback ==
    /\ pc \in {"run", "judge"}
    /\ feedback_round >= 1
    /\ code_iter = 1

\* C22: whenever feedback that is not empty is accepted, after a PASS or at
\* the forced prompt after FAILs, the next iteration makes a fresh generation
\* call with the feedback message in the history; code produced before the
\* feedback is never run as code iteration 1 of the new feedback round.
C22_FreshGenerationAfterFeedback ==
    FirstAfterFeedback =>
        /\ Happened("gen")
        /\ before_gen.pending = <<>>
        /\ \E i \in 1..Len(conversation_history) :
               IsFeedbackMsg(conversation_history[i])

====
